---- MODULE Spec2Model ----
(***************************************************************************)
(* remote.py: the aggregator of the two-phase decentralized regression.    *)
(* One invocation of the script reads one payload, routes it by its       *)
(* computation_phase tags to remote_1 or remote_2, and writes one          *)
(* response or raises.  The cache returned by remote_1 is handed back by   *)
(* the caller in the payload of the remote_2 invocation.                   *)
(*                                                                         *)
(* Numbers are exact rationals n/d (d > 0), extended by the IEEE specials  *)
(* numpy produces instead of raising: 1/0 is inf, -1/0 is -inf, 0/0 is     *)
(* nan.  Floating-point rounding is not modelled.  numpy arrays carry      *)
(* their shape, and element-wise operations broadcast as numpy does.       *)
(***************************************************************************)
EXTENDS Integers, Sequences, FiniteSets, TLC

(***************************************************************************)
(* Bounds of the model.                                                    *)
(***************************************************************************)
MaxSites == 2
MaxDim == 2
MaxP == 2

(***************************************************************************)
(* Numbers.                                                                *)
(***************************************************************************)
Abs(x) == IF x < 0 THEN -x ELSE x

Sgn(x) == IF x < 0 THEN -1 ELSE IF x > 0 THEN 1 ELSE 0

RECURSIVE GCD(_, _)
GCD(a, b) == IF b = 0 THEN a ELSE GCD(b, a % b)

Norm(n, d) ==
    IF d = 0 THEN [n |-> Sgn(n), d |-> 0]
    ELSE LET g == GCD(Abs(n), Abs(d))
             s == IF d < 0 THEN -1 ELSE 1
         IN  [n |-> (s * n) \div g, d |-> (s * d) \div g]

Num(i) == [n |-> i, d |-> 1]

NaN == [n |-> 0, d |-> 0]

IsFinite(a) == a.d # 0

FNeg(a) == [n |-> -a.n, d |-> a.d]

FMul(a, b) == Norm(a.n * b.n, a.d * b.d)

FRecip(b) ==
    IF b.n > 0 THEN [n |-> b.d, d |-> b.n]
    ELSE IF b.n < 0 THEN [n |-> -b.d, d |-> -b.n]
    ELSE [n |-> b.d, d |-> 0]

FDiv(a, b) == FMul(a, FRecip(b))

FAdd(a, b) ==
    IF a.d = 0 /\ b.d = 0 THEN (IF a = b THEN a ELSE NaN)
    ELSE Norm(a.n * b.d + b.n * a.d, a.d * b.d)

FSub(a, b) == FAdd(a, FNeg(b))

(***************************************************************************)
(* numpy arrays: a shape and one number per index tuple.  ok = FALSE is an *)
(* operation that raised (shapes that do not broadcast, a ragged list).    *)
(***************************************************************************)
RECURSIVE IndexSet(_)
IndexSet(shape) ==
    IF shape = <<>> THEN {<<>>}
    ELSE {<<i>> \o rest : i \in 1..Head(shape), rest \in IndexSet(Tail(shape))}

Arr(shape, data) == [ok |-> TRUE, shape |-> shape, data |-> data]

ArrErr == [ok |-> FALSE, shape |-> <<>>, data |-> <<>>]

Scalar(v) == Arr(<<>>, [idx \in {<<>>} |-> v])

Rank(a) == Len(a.shape)

Max(x, y) == IF x >= y THEN x ELSE y

\* The dimension of shape s at position k of a rank-r result (right-aligned).
DimAt(s, k, r) == IF k > r - Len(s) THEN s[k - (r - Len(s))] ELSE 1

Broadcastable(s1, s2) ==
    LET r == Max(Len(s1), Len(s2))
    IN  \A k \in 1..r :
            \/ DimAt(s1, k, r) = DimAt(s2, k, r)
            \/ DimAt(s1, k, r) = 1
            \/ DimAt(s2, k, r) = 1

BroadcastShape(s1, s2) ==
    LET r == Max(Len(s1), Len(s2))
    IN  [k \in 1..r |->
            IF DimAt(s1, k, r) = 1 THEN DimAt(s2, k, r) ELSE DimAt(s1, k, r)]

\* The index into an array of shape s that result index idx reads.
BroadcastIndex(idx, s) ==
    LET r == Len(idx)
        n == Len(s)
    IN  [k \in 1..n |-> IF s[k] = 1 THEN 1 ELSE idx[r - n + k]]

\* beta / sqrt(v), kept as the pair it is computed from.
TDiv(b, s) == [num |-> b, den_sqrt |-> s.sqrt]

\* The binary operation op on two elements.
Binary(op, x, y) ==
    CASE op = "+" -> FAdd(x, y)
      [] op = "-" -> FSub(x, y)
      [] op = "*" -> FMul(x, y)
      [] op = "/" -> FDiv(x, y)
      [] op = "/sqrt" -> TDiv(x, y)

ElementWise(op, a, b) ==
    IF ~a.ok \/ ~b.ok THEN ArrErr
    ELSE IF ~Broadcastable(a.shape, b.shape) THEN ArrErr
    ELSE LET s == BroadcastShape(a.shape, b.shape)
         IN  Arr(s, [idx \in IndexSet(s) |->
                       Binary(op, a.data[BroadcastIndex(idx, a.shape)],
                                  b.data[BroadcastIndex(idx, b.shape)])])

NpAdd(a, b) == ElementWise("+", a, b)
NpSub(a, b) == ElementWise("-", a, b)
NpMul(a, b) == ElementWise("*", a, b)
NpDiv(a, b) == ElementWise("/", a, b)

\* np.array(list of arrays): the arrays stacked along a new first axis.
Stack(arrs) ==
    IF \E i \in 1..Len(arrs) : ~arrs[i].ok THEN ArrErr
    ELSE IF Len(arrs) = 0 THEN Arr(<<0>>, <<>>)
    ELSE IF \E i \in 1..Len(arrs) : arrs[i].shape # arrs[1].shape THEN ArrErr
    ELSE LET s == <<Len(arrs)>> \o arrs[1].shape
         IN  Arr(s, [idx \in IndexSet(s) |-> arrs[Head(idx)].data[Tail(idx)]])

RECURSIVE FSum(_, _, _)
FSum(f, lo, hi) == IF lo > hi THEN Num(0) ELSE FAdd(f[lo], FSum(f, lo + 1, hi))

\* np.sum(a, axis=0)
SumAxis0(a) ==
    IF ~a.ok \/ Rank(a) = 0 THEN ArrErr
    ELSE LET s == Tail(a.shape)
             n == Head(a.shape)
         IN  Arr(s, [idx \in IndexSet(s) |->
                       FSum([i \in 1..n |-> a.data[<<i>> \o idx]], 1, n)])

\* The builtin sum(list): 0 + list[0] + list[1] + ...
RECURSIVE PySum(_, _)
PySum(arrs, k) ==
    IF k = 0 THEN Scalar(Num(0)) ELSE NpAdd(PySum(arrs, k - 1), arrs[k])

(***************************************************************************)
(* JSON values as ujson parses them: a number or a list of values.         *)
(***************************************************************************)
JNum(v) == [k |-> "num", v |-> v]

JList(items) == [k |-> "list", items |-> items]

JErr == [k |-> "err"]

RECURSIVE JShape(_)
JShape(j) ==
    IF j.k = "num" THEN <<>>
    ELSE IF Len(j.items) = 0 THEN <<0>>
    ELSE <<Len(j.items)>> \o JShape(j.items[1])

RECURSIVE JRegular(_)
JRegular(j) ==
    \/ j.k = "num"
    \/ /\ j.k = "list"
       /\ \A i \in 1..Len(j.items) :
              /\ JRegular(j.items[i])
              /\ JShape(j.items[i]) = JShape(j.items[1])

RECURSIVE JAt(_, _)
JAt(j, idx) == IF idx = <<>> THEN j.v ELSE JAt(j.items[Head(idx)], Tail(idx))

\* np.array(x) of a parsed JSON value; a ragged list raises.
NpArray(j) ==
    IF JRegular(j)
    THEN Arr(JShape(j), [idx \in IndexSet(JShape(j)) |-> JAt(j, idx)])
    ELSE ArrErr

SubArray(a, i) ==
    Arr(Tail(a.shape),
        [idx \in IndexSet(Tail(a.shape)) |-> a.data[<<i>> \o idx]])

\* ndarray.tolist(): nested lists, a Python scalar for a 0-d array.
RECURSIVE ToList(_)
ToList(a) ==
    IF Rank(a) = 0 THEN JNum(a.data[<<>>])
    ELSE JList([i \in 1..Head(a.shape) |-> ToList(SubArray(a, i))])

\* x[i] on a parsed JSON value, i counted from 0: a list element, or a
\* TypeError (a number is not subscriptable) or IndexError.
PyIndex(j, i) ==
    IF j.k # "list" THEN JErr
    ELSE IF i + 1 > Len(j.items) THEN JErr
    ELSE j.items[i + 1]

\* Entry k of a site's field, for a scalar field the scalar itself.
EntryOf(j, k) == IF j.k = "num" THEN j.v.n ELSE j.items[k].v.n

RECURSIVE IntSum(_, _)
IntSum(f, n) == IF n = 0 THEN 0 ELSE f[n] + IntSum(f, n - 1)

PyIndexError(j) == IF j.k # "list" THEN "TypeError" ELSE "IndexError"

(***************************************************************************)
(* The payload: args["input"] is a dict from site identifier to the       *)
(* site's record, kept in its iteration order as a sequence of            *)
(* [site, rec]; a record is a function from the keys it has.               *)
(***************************************************************************)
Has(rec, key) == key \in DOMAIN rec

AllHave(input_list, key) ==
    \A i \in 1..Len(input_list) : Has(input_list[i].rec, key)

Field(input_list, key) == [i \in 1..Len(input_list) |-> input_list[i].rec[key]]

SiteSet(input_list) == {input_list[i].site : i \in 1..Len(input_list)}

NoOutput == [nothing |-> TRUE]

Raise(exc) == [raised |-> exc, stdout |-> NoOutput, sink |-> NoOutput]

(***************************************************************************)
(* remote_1                                                                *)
(***************************************************************************)
\* avg_beta_vector_1 weighting each site's coefficients by its first count.
avg_beta_vector_1_weighted(input_list) ==
    LET betas == [i \in 1..Len(input_list) |->
                     NpMul(NpArray(input_list[i].rec["beta_vector_local"]),
                           Scalar(Num(EntryOf(input_list[i].rec["count_local"], 1))))]
        total == IntSum([i \in 1..Len(input_list) |->
                           EntryOf(input_list[i].rec["count_local"], 1)],
                        Len(input_list))
    IN  NpDiv(SumAxis0(Stack(betas)), Scalar(Num(total)))

\* np.average([...beta_vector_local...], axis=0)
avg_beta_vector_1(input_list) ==
    LET betas == [i \in 1..Len(input_list) |->
                     NpArray(input_list[i].rec["beta_vector_local"])]
    IN  NpDiv(SumAxis0(Stack(betas)), Scalar(Num(Len(input_list))))

count_y_local_1(input_list) ==
    [i \in 1..Len(input_list) |-> NpArray(input_list[i].rec["count_local"])]

\* np.array(mean_y_local) * np.array(count_y_local), summed over axis 0 and
\* divided by np.sum(count_y_local, axis=0).
mean_y_global_1(input_list) ==
    LET mean_y_local == JList(Field(input_list, "mean_y_local"))
        count_y_local == count_y_local_1(input_list)
        weighted == NpMul(NpArray(mean_y_local), Stack(count_y_local))
    IN  NpDiv(SumAxis0(weighted), SumAxis0(Stack(count_y_local)))

\* dof_global_1 subtracting avg_beta_vector.shape[0], the number of output
\* dimensions, instead of the number of coefficients.
dof_global_1_rows(count_y_local, avg_beta_vector) ==
    NpSub(PySum(count_y_local, Len(count_y_local)),
          Scalar(Num(avg_beta_vector.shape[1])))

\* sum(count_y_local) - avg_beta_vector.shape[1]
dof_global_1(count_y_local, avg_beta_vector) ==
    NpSub(PySum(count_y_local, Len(count_y_local)),
          Scalar(Num(avg_beta_vector.shape[2])))

\* output_dict_1 echoing the sites' tag instead of 'remote_1'.
output_dict_1_echo(avg_beta_vector, mean_y_global) ==
    [avg_beta_vector |-> ToList(avg_beta_vector),
     mean_y_global |-> ToList(mean_y_global),
     computation_phase |-> "local_1"]

\* output_dict = {"avg_beta_vector": ..., "mean_y_global": ...,
\*                "computation_phase": 'remote_1'}
output_dict_1(avg_beta_vector, mean_y_global) ==
    [avg_beta_vector |-> ToList(avg_beta_vector),
     mean_y_global |-> ToList(mean_y_global),
     computation_phase |-> "remote_1"]

remote_1(args) ==
    LET input_list == args.input
    IN
    IF Len(input_list) = 0 THEN Raise("IndexError")
    ELSE IF ~Has(input_list[1].rec, "X_labels") THEN Raise("KeyError")
    ELSE IF ~Has(input_list[1].rec, "y_labels") THEN Raise("KeyError")
    ELSE IF ~AllHave(input_list, "local_stats_dict") THEN Raise("KeyError")
    ELSE IF ~AllHave(input_list, "beta_vector_local") THEN Raise("KeyError")
    ELSE LET avg_beta_vector == avg_beta_vector_1(input_list) IN
    IF ~avg_beta_vector.ok THEN Raise("ValueError")
    ELSE IF ~AllHave(input_list, "mean_y_local") THEN Raise("KeyError")
    ELSE IF ~AllHave(input_list, "count_local") THEN Raise("KeyError")
    ELSE LET mean_y_global == mean_y_global_1(input_list) IN
    IF ~mean_y_global.ok THEN Raise("ValueError")
    ELSE IF Rank(avg_beta_vector) < 2 THEN Raise("IndexError")
    ELSE LET dof_global ==
                 dof_global_1(count_y_local_1(input_list), avg_beta_vector)
         IN
    IF ~dof_global.ok THEN Raise("ValueError")
    ELSE [raised |-> "",
          stdout |->
            [output |-> output_dict_1(avg_beta_vector, mean_y_global),
             cache |->
               [avg_beta_vector |-> ToList(avg_beta_vector),
                mean_y_global |-> ToList(mean_y_global),
                dof_global |-> ToList(dof_global),
                X_labels |-> input_list[1].rec["X_labels"],
                y_labels |-> input_list[1].rec["y_labels"],
                local_stats_dict |-> Field(input_list, "local_stats_dict")]],
          sink |-> NoOutput]

(***************************************************************************)
(* The payloads the sites send.  A Phase-1 record carries the fields       *)
(* remote_1 reads, a Phase-2 record those remote_2 reads; the tag is the   *)
(* record's computation_phase, absent when tag = NoTag.                    *)
(***************************************************************************)
SiteName == <<"site_A", "site_B", "site_C", "site_D">>

XNames == <<"const", "age", "sex", "dx">>

YNames == <<"voxel_1", "voxel_2", "voxel_3", "voxel_4">>

NoTag == "(absent)"

Tags == {"local_1", "local_2", "local_3", NoTag}

WithTag(rec, tag) ==
    IF tag = NoTag THEN rec ELSE rec @@ [computation_phase |-> tag]

\* A site's Phase-1 record for d output dimensions and p coefficients.
\* form says which fields are per-dimension lists: beta2d (a d x p array
\* rather than one length-p vector), meanvec, countvec.
LocalRecord1(site, form, d, p, m, c, tag) ==
    WithTag(
      [beta_vector_local |->
         IF form.beta2d
         THEN JList([i \in 1..d |->
                       JList([j \in 1..p |-> JNum(Num(m + 2 * i + j))])])
         ELSE JList([j \in 1..p |-> JNum(Num(m + j))]),
       mean_y_local |->
         IF form.meanvec
         THEN JList([k \in 1..d |-> JNum(Num(m + 4 * (k - 1)))])
         ELSE JNum(Num(m)),
       count_local |->
         IF form.countvec
         THEN JList([k \in 1..d |-> JNum(Num(c + k - 1))])
         ELSE JNum(Num(c)),
       X_labels |-> SubSeq(XNames, 1, p),
       y_labels |-> SubSeq(YNames, 1, d),
       local_stats_dict |-> [site |-> site, mean |-> m, count |-> c]],
      tag)

\* A site's Phase-2 record.  SST_local is zero in the first output
\* dimension when sst = 0; kind "zerocol" is the cross-product matrix of a
\* design whose last covariate column is all zeros at that site.
VarX(kind, i, j, p) ==
    IF kind = "zerocol" /\ (i = p \/ j = p) THEN 0
    ELSE IF i = j THEN 2 + i ELSE 1

LocalRecord2(site, d, p, sst, kind, tag) ==
    WithTag(
      [SSE_local |-> JList([k \in 1..d |-> JNum(Num(1 + k))]),
       SST_local |-> JList([k \in 1..d |-> JNum(Num(sst + 3 * (k - 1)))]),
       varX_matrix_local |->
         JList([i \in 1..p |->
                  JList([j \in 1..p |-> JNum(Num(VarX(kind, i, j, p)))])])],
      tag)

(***************************************************************************)
(* scipy.linalg.inv: the inverse of a square matrix, computed here exactly *)
(* (adjugate over determinant); it raises ValueError for an array that is  *)
(* not a square matrix and LinAlgError for a singular one.                 *)
(***************************************************************************)
RemoveAt(seq, k) == SubSeq(seq, 1, k - 1) \o SubSeq(seq, k + 1, Len(seq))

Iota(n) == [i \in 1..n |-> i]

AltSign(k) == Num(IF k % 2 = 0 THEN 1 ELSE -1)

RECURSIVE DetSub(_, _, _)
DetSub(data, rows, cols) ==
    IF rows = <<>> THEN Num(1)
    ELSE FSum([k \in 1..Len(cols) |->
                 FMul(FMul(AltSign(k + 1), data[<<rows[1], cols[k]>>]),
                      DetSub(data, Tail(rows), RemoveAt(cols, k)))],
              1, Len(cols))

IsSquare(a) == a.ok /\ Rank(a) = 2 /\ a.shape[1] = a.shape[2]

Det(a) == DetSub(a.data, Iota(a.shape[1]), Iota(a.shape[1]))

\* linalg_inv without the singularity check: it divides by a zero
\* determinant and returns inf and nan entries.
linalg_inv_unchecked(a) ==
    IF ~IsSquare(a) THEN ArrErr
    ELSE LET n == a.shape[1]
             det == Det(a)
         IN  Arr(a.shape,
                 [idx \in IndexSet(a.shape) |->
                    FDiv(FMul(AltSign(idx[1] + idx[2]),
                              DetSub(a.data, RemoveAt(Iota(n), idx[2]),
                                     RemoveAt(Iota(n), idx[1]))),
                         det)])

linalg_inv(a) ==
    IF ~IsSquare(a) THEN ArrErr
    ELSE LET n == a.shape[1]
             det == Det(a)
         IN  IF det = Num(0) THEN ArrErr
             ELSE Arr(a.shape,
                      [idx \in IndexSet(a.shape) |->
                         FDiv(FMul(AltSign(idx[1] + idx[2]),
                                   DetSub(a.data, RemoveAt(Iota(n), idx[2]),
                                          RemoveAt(Iota(n), idx[1]))),
                              det)])

\* ndarray.diagonal() of a matrix
Diagonal(a) ==
    IF ~a.ok \/ Rank(a) # 2 THEN ArrErr
    ELSE LET n == IF a.shape[1] <= a.shape[2] THEN a.shape[1] ELSE a.shape[2]
         IN  Arr(<<n>>, [idx \in IndexSet(<<n>>) |-> a.data[<<idx[1], idx[1]>>]])

\* np.sqrt, kept symbolic: the element [sqrt |-> v] stands for the square
\* root of v (nan for a negative v, without raising).
NpSqrt(a) ==
    IF ~a.ok THEN ArrErr
    ELSE Arr(a.shape, [idx \in IndexSet(a.shape) |-> [sqrt |-> a.data[idx]]])

\* reg.t_to_p(ts, dof): one p-value per t, a function of t and dof alone.
t_to_p(ts, dof) ==
    JList([j \in 1..Len(ts.items) |->
             JNum([t_to_p |-> ts.items[j], dof |-> dof])])

(***************************************************************************)
(* remote_2                                                                *)
(***************************************************************************)
\* sum([np.array(input_list[site][key]) for site in input_list])
SumOverSites(input_list, key) ==
    PySum([i \in 1..Len(input_list) |-> NpArray(input_list[i].rec[key])],
          Len(input_list))

\* 1 - (SSE_global / SST_global)
r_squared_global_2(SSE_global, SST_global) ==
    NpSub(Scalar(Num(1)), NpDiv(SSE_global, SST_global))

\* SSE_global / np.array(dof_global)
MSE_2(SSE_global, dof_global) == NpDiv(SSE_global, NpArray(dof_global))

\* One pass of the loop over range(len(MSE)), for i counted from 0; inv is
\* sp.linalg.inv(varX_matrix_global), the same in every pass.
se_beta_global_2(MSE, inv, i) ==
    NpSqrt(Diagonal(NpMul(SubArray(MSE, i + 1), inv)))

ts_2(avg_beta_vector, se_beta_global, i) ==
    IF PyIndex(avg_beta_vector, i) = JErr THEN ArrErr
    ELSE ElementWise("/sqrt", NpArray(PyIndex(avg_beta_vector, i)), se_beta_global)

LoopError(MSE, varX_matrix_global, inv, avg_beta_vector, dof_global, i) ==
    IF ~IsSquare(varX_matrix_global) THEN "ValueError"
    ELSE IF ~inv.ok THEN "LinAlgError"
    ELSE LET se == se_beta_global_2(MSE, inv, i) IN
    IF ~se.ok THEN "ValueError"
    ELSE IF PyIndex(avg_beta_vector, i) = JErr
    THEN PyIndexError(avg_beta_vector)
    ELSE IF ~ts_2(avg_beta_vector, se, i).ok THEN "ValueError"
    ELSE IF PyIndex(dof_global, i) = JErr THEN PyIndexError(dof_global)
    ELSE ""

\* dict(zip(sites, all_local_stats_dicts)): pairs up to the shorter length.
ZipDict(sites, values) ==
    LET n == IF Len(sites) <= Len(values) THEN Len(sites) ELSE Len(values)
    IN  [s \in {sites[i] : i \in 1..n} |->
            values[CHOOSE i \in 1..n :
                      sites[i] = s /\ \A k \in (i + 1)..n : sites[k] # s]]

\* encode_png(args): the rendering collaborator's artifact, opaque here.
encode_png(args) == "global_stats.png"

\* avg_beta_vector = cache_list["avg_beta_vector"]
avg_beta_vector_2(args) == args.cache["avg_beta_vector"]

\* dof_global_2 recomputed from the Phase-2 payload (the number of sites
\* reporting) instead of read from the cache.
dof_global_2_recomputed(args) ==
    JList([k \in 1..Len(args.cache["y_labels"]) |-> JNum(Num(Len(args.input)))])

\* dof_global = cache_list["dof_global"]
dof_global_2(args) == args.cache["dof_global"]

remote_2_loop(args, SSE_global, varX_matrix_global) ==
    LET input_list == args.input
        cache_list == args.cache
        avg_beta_vector == avg_beta_vector_2(args)
        dof_global == dof_global_2(args)
        MSE == MSE_2(SSE_global, dof_global)
    IN
    IF ~MSE.ok THEN Raise("ValueError")
    ELSE IF Rank(MSE) = 0 THEN Raise("TypeError")
    ELSE LET n == MSE.shape[1]
             inv == linalg_inv(varX_matrix_global)
             Err == [i \in 0..(n - 1) |->
                       LoopError(MSE, varX_matrix_global, inv,
                                 avg_beta_vector, dof_global, i)]
         IN
    \* The first pass that raises ends the loop.
    IF \E i \in 0..(n - 1) : Err[i] # ""
    THEN Raise(Err[CHOOSE i \in 0..(n - 1) :
                     Err[i] # "" /\ \A k \in 0..(i - 1) : Err[k] = ""])
    ELSE LET ts_global ==
                 [i \in 1..n |->
                    ToList(ts_2(avg_beta_vector,
                                se_beta_global_2(MSE, inv, i - 1), i - 1))]
             ps_global == [i \in 1..n |->
                             t_to_p(ts_global[i], PyIndex(dof_global, i - 1))]
             sites == [i \in 1..Len(input_list) |-> input_list[i].site]
             all_local_stats_dicts ==
                 ZipDict(sites, cache_list["local_stats_dict"])
         IN  [raised |-> "",
              stdout |->
                [output |-> [global_stats |-> encode_png(args),
                             local_stats |-> all_local_stats_dicts],
                 success |-> TRUE],
              sink |->
                [print_pvals |->
                   [ps_global |-> ps_global, ts_global |-> ts_global,
                    X_labels |-> cache_list["X_labels"]],
                 print_beta_images |->
                   [avg_beta_vector |-> avg_beta_vector,
                    X_labels |-> cache_list["X_labels"]]]]

remote_2(args) ==
    LET input_list == args.input
        cache_list == args.cache
    IN
    IF ~Has(cache_list, "X_labels") THEN Raise("KeyError")
    ELSE IF ~Has(cache_list, "local_stats_dict") THEN Raise("KeyError")
    ELSE IF ~Has(cache_list, "avg_beta_vector") THEN Raise("KeyError")
    ELSE IF ~Has(cache_list, "dof_global") THEN Raise("KeyError")
    ELSE IF ~AllHave(input_list, "SSE_local") THEN Raise("KeyError")
    ELSE IF ~AllHave(input_list, "SST_local") THEN Raise("KeyError")
    ELSE IF ~AllHave(input_list, "varX_matrix_local") THEN Raise("KeyError")
    ELSE LET SSE_global == SumOverSites(input_list, "SSE_local")
             SST_global == SumOverSites(input_list, "SST_local")
             varX_matrix_global == SumOverSites(input_list, "varX_matrix_local")
         IN
    IF ~SSE_global.ok \/ ~SST_global.ok \/ ~varX_matrix_global.ok
    THEN Raise("ValueError")
    \* With no site the sums are the Python int 0, and 0 / 0 raises.
    ELSE IF Len(input_list) = 0 THEN Raise("ZeroDivisionError")
    ELSE IF ~r_squared_global_2(SSE_global, SST_global).ok
    THEN Raise("ValueError")
    ELSE remote_2_loop(args, SSE_global, varX_matrix_global)

(***************************************************************************)
(* __main__: the dispatcher.                                               *)
(***************************************************************************)
\* list(reg.list_recursive(parsed_args, 'computation_phase')): the values
\* of the key found in the payload's nested dicts, here the sites' records
\* (the cache remote_1 builds holds no such key).
list_recursive(parsed_args, key) ==
    LET tagged == SelectSeq(parsed_args.input, LAMBDA e : Has(e.rec, key))
    IN  [i \in 1..Len(tagged) |-> tagged[i].rec[key]]

In(x, list) == \E i \in 1..Len(list) : list[i] = x

\* Route with the two tests in the other order.
Route_local_2_first(phase_key) ==
    IF In("local_2", phase_key) THEN "remote_2"
    ELSE IF In("local_1", phase_key) THEN "remote_1"
    ELSE "raise"

Route(phase_key) ==
    IF In("local_1", phase_key) THEN "remote_1"
    ELSE IF In("local_2", phase_key) THEN "remote_2"
    ELSE "raise"

(***************************************************************************)
(* State.  One step is one invocation of the script by the caller, who     *)
(* keeps the cache of the last Phase-1 response and sends it back with     *)
(* the next payload.                                                       *)
(*   pc       AwaitingPhase1, AwaitingPhase2, Done or Failed               *)
(*   args     parsed_args of the last invocation                           *)
(*   called   the combiner the last invocation ran ("" for none)           *)
(*   stdout   what the last invocation wrote (NoOutput for nothing)        *)
(*   raised   the exception that ended it ("" for none)                    *)
(*   sink     what it handed to print_pvals and print_beta_images          *)
(*   carried  the cache the caller holds                                   *)
(*   supplied history: the blob each site supplied in Phase-1 of the run   *)
(***************************************************************************)
VARIABLES pc, args, called, stdout, raised, sink, carried, supplied

vars == <<pc, args, called, stdout, raised, sink, carried, supplied>>

EmptyDict == <<>>

Init ==
    /\ pc = "AwaitingPhase1"
    /\ args = [input |-> <<>>, cache |-> EmptyDict]
    /\ called = ""
    /\ stdout = NoOutput
    /\ raised = ""
    /\ sink = NoOutput
    /\ carried = EmptyDict
    /\ supplied = EmptyDict

Returned == raised = "" /\ Has(stdout, "output")

Finish(parsed_args, combiner, res) ==
    /\ args' = parsed_args
    /\ called' = combiner
    /\ stdout' = res.stdout
    /\ raised' = res.raised
    /\ sink' = res.sink
    /\ pc' = IF res.raised # "" THEN "Failed"
             ELSE IF combiner = "remote_1" THEN "AwaitingPhase2"
             ELSE "Done"
    /\ carried' = IF Has(res.stdout, "cache") THEN res.stdout.cache ELSE carried
    /\ supplied' =
         IF combiner = "remote_1" /\ res.raised = ""
         THEN [s \in SiteSet(parsed_args.input) |->
                 LET i == CHOOSE i \in 1..Len(parsed_args.input) :
                              parsed_args.input[i].site = s
                 IN  parsed_args.input[i].rec["local_stats_dict"]]
         ELSE supplied

ParsedArgs(payload) == [input |-> payload, cache |-> carried]

Running == pc \in {"AwaitingPhase1", "AwaitingPhase2"}

\* if "local_1" in phase_key: remote_1, and its result written
main_local_1(payload) ==
    /\ Running
    /\ Route(list_recursive(ParsedArgs(payload), "computation_phase")) = "remote_1"
    /\ Finish(ParsedArgs(payload), "remote_1", remote_1(ParsedArgs(payload)))

\* elif "local_2" in phase_key: remote_2, and its result written
main_local_2(payload) ==
    /\ Running
    /\ Route(list_recursive(ParsedArgs(payload), "computation_phase")) = "remote_2"
    /\ Finish(ParsedArgs(payload), "remote_2", remote_2(ParsedArgs(payload)))

\* else: raise ValueError("Error occurred at Remote")
main_raise(payload) ==
    /\ Running
    /\ Route(list_recursive(ParsedArgs(payload), "computation_phase")) = "raise"
    /\ Finish(ParsedArgs(payload), "", Raise("ValueError"))

(***************************************************************************)
(* The payloads of the protocol specification: every ordering of every     *)
(* subset of the sites, every tag at every site; the numbers are fixed per *)
(* site, one output dimension and two coefficients.  Phase-1 records are   *)
(* sent while the run awaits Phase-1, Phase-2 records (of the dimensions   *)
(* of the carried cache) afterwards.                                       *)
(***************************************************************************)
Sites == {SiteName[i] : i \in 1..MaxSites}

SiteIndex(s) == CHOOSE i \in 1..Len(SiteName) : SiteName[i] = s

Orderings ==
    {o \in UNION {[1..n -> Sites] : n \in 0..MaxSites} :
        \A i, j \in 1..Len(o) : i # j => o[i] # o[j]}

PerDimension == [beta2d |-> TRUE, meanvec |-> TRUE, countvec |-> TRUE]

ProtocolDims == {<<1, 2>>}

SitePayloads1 ==
    UNION {{[i \in 1..Len(o) |->
               [site |-> o[i],
                rec |-> LocalRecord1(o[i], PerDimension, dp[1], dp[2],
                                     2 * SiteIndex(o[i]),
                                     20 * SiteIndex(o[i]) - 10, tags[i])]] :
             tags \in [1..Len(o) -> Tags], dp \in ProtocolDims} :
           o \in Orderings}

SitePayloads2(d, p) ==
    UNION {{[i \in 1..Len(o) |->
               [site |-> o[i],
                rec |-> LocalRecord2(o[i], d, p, 3, "regular", tags[i])]] :
             tags \in [1..Len(o) -> Tags]} :
           o \in Orderings}

ProtocolPayloads ==
    IF pc = "AwaitingPhase1" THEN SitePayloads1
    ELSE IF pc = "AwaitingPhase2"
    THEN SitePayloads2(Len(carried.y_labels), Len(carried.X_labels))
    ELSE {}

Protocol_local_1 == \E payload \in ProtocolPayloads : main_local_1(payload)

Protocol_local_2 == \E payload \in ProtocolPayloads : main_local_2(payload)

Protocol_raise == \E payload \in ProtocolPayloads : main_raise(payload)

Next == Protocol_local_1 \/ Protocol_local_2 \/ Protocol_raise

Spec == Init /\ [][Next]_vars

(***************************************************************************)
(* The payloads of the Phase-1 specification: the first n sites, all       *)
(* tagged local_1, every combination of d output dimensions and p          *)
(* coefficients, of scalar or per-dimension fields, and of each site's     *)
(* mean and (positive) count.                                              *)
(***************************************************************************)
MeanSeeds == {2, 4}

CountSeeds == {10, 30}

Forms == [beta2d : BOOLEAN, meanvec : BOOLEAN, countvec : BOOLEAN]

NumericPayloads1(forms, means) ==
    UNION {{[i \in 1..n |->
               [site |-> SiteName[i],
                rec |-> LocalRecord1(SiteName[i], form, d, p,
                                     m[i], c[i], "local_1")]] :
             m \in [1..n -> means], c \in [1..n -> CountSeeds],
             form \in forms, d \in 1..MaxDim, p \in 1..MaxP} :
           n \in 1..MaxSites}

Phase1Payloads ==
    IF pc = "AwaitingPhase1" THEN NumericPayloads1(Forms, MeanSeeds) ELSE {}

Phase1_local_1 == \E payload \in Phase1Payloads : main_local_1(payload)

NextPhase1 == Phase1_local_1

SpecPhase1 == Init /\ [][NextPhase1]_vars

(***************************************************************************)
(* The payloads of the Phase-2 specification: a Phase-1 round of the first *)
(* n sites with per-dimension or scalar counts, then a Phase-2 round of    *)
(* the same sites in the same order, each with a zero or positive first    *)
(* SST entry and a regular or zero-column cross-product matrix.            *)
(***************************************************************************)
SSTSeeds == {0, 3}

VarXKinds == {"regular", "zerocol"}

RunForms == {f \in Forms : f.beta2d /\ f.meanvec}

NumericPayloads2(n, d, p) ==
    {[i \in 1..n |->
        [site |-> SiteName[i],
         rec |-> LocalRecord2(SiteName[i], d, p, sst[i], kind[i], "local_2")]] :
      sst \in [1..n -> SSTSeeds], kind \in [1..n -> VarXKinds]}

RunPayloads ==
    IF pc = "AwaitingPhase1"
    THEN NumericPayloads1(RunForms, {2})
    ELSE IF pc = "AwaitingPhase2"
    THEN NumericPayloads2(Len(carried.local_stats_dict),
                          Len(carried.y_labels), Len(carried.X_labels))
    ELSE {}

Run_local_1 == \E payload \in RunPayloads : main_local_1(payload)

Run_local_2 == \E payload \in RunPayloads : main_local_2(payload)

NextPhase2 == Run_local_1 \/ Run_local_2

SpecPhase2 == Init /\ [][NextPhase2]_vars

(***************************************************************************)
(* What the claims speak of, read off the payload of the last invocation   *)
(* and its response.                                                       *)
(***************************************************************************)
Invoked == pc # "AwaitingPhase1"

NSites == Len(args.input)

\* The distinct computation_phase tags present in the payload.
TagsFound ==
    {args.input[i].rec["computation_phase"] :
        i \in {k \in 1..NSites : Has(args.input[k].rec, "computation_phase")}}

\* The sum over the sites of entry k of an integer field.
SiteSum(key, k) ==
    IntSum([i \in 1..NSites |-> EntryOf(args.input[i].rec[key], k)], NSites)

\* The sum over the sites of mean times count in output dimension k.
WeightedSum(k) ==
    IntSum([i \in 1..NSites |->
              EntryOf(args.input[i].rec["mean_y_local"], k)
              * EntryOf(args.input[i].rec["count_local"], k)], NSites)

OutDims == Len(args.input[1].rec["y_labels"])

\* C1: the dispatcher routes by the tags found: remote_1 whenever local_1
\* is among them, else remote_2 when local_2 is, else it raises and writes
\* nothing.
C1_RoutesByTags ==
    Invoked =>
        /\ "local_1" \in TagsFound => called = "remote_1"
        /\ ("local_1" \notin TagsFound /\ "local_2" \in TagsFound)
              => called = "remote_2"
        /\ ("local_1" \notin TagsFound /\ "local_2" \notin TagsFound)
              => called = "" /\ raised = "ValueError" /\ stdout = NoOutput
        /\ (called = "remote_1" /\ Returned)
              => stdout.output.computation_phase = "remote_1"
        /\ (called = "remote_2" /\ Returned) => Has(stdout.output, "local_stats")

C1_Witness ==
    /\ called = "remote_1"
    /\ Returned
    /\ {"local_1", "local_2"} \subseteq TagsFound

\* C2: after Phase-1 and Phase-2 over the same set of sites, local_stats
\* maps every site to the blob that site supplied in Phase-1.
C2_BlobsKeyedBySite ==
    (pc = "Done" /\ SiteSet(args.input) = DOMAIN supplied)
        => \A s \in DOMAIN supplied : stdout.output.local_stats[s] = supplied[s]

\* C3: a Phase-2 call whose set of sites differs from that of Phase-1
\* does not return a success response.
C3_MismatchedSitesFatal ==
    (called = "remote_2" /\ args.cache # EmptyDict
        /\ SiteSet(args.input) # DOMAIN supplied)
        => ~Returned

\* C4: the mean_y_global remote_1 returns is, in every output dimension,
\* the sum of mean times count over the sum of counts.
C4_WeightedMean ==
    (called = "remote_1" /\ Returned) =>
        LET g == stdout.output.mean_y_global
            scalar == \A i \in 1..NSites :
                          /\ args.input[i].rec["mean_y_local"].k = "num"
                          /\ args.input[i].rec["count_local"].k = "num"
        IN  IF scalar
            THEN /\ g.k = "num"
                 /\ g.v.n * SiteSum("count_local", 1) = g.v.d * WeightedSum(1)
            ELSE /\ g.k = "list"
                 /\ Len(g.items) = OutDims
                 /\ \A k \in 1..OutDims :
                        g.items[k].v.n * SiteSum("count_local", k)
                            = g.items[k].v.d * WeightedSum(k)

C6_UnweightedMean ==
    (called = "remote_1" /\ Returned) =>
        LET avg == stdout.output.avg_beta_vector
            b1 == args.input[1].rec["beta_vector_local"]
        IN  /\ Len(avg.items) = Len(b1.items)
            /\ \A i \in 1..Len(b1.items) :
                 /\ Len(avg.items[i].items) = Len(b1.items[i].items)
                 /\ \A j \in 1..Len(b1.items[i].items) :
                      avg.items[i].items[j].v.n * NSites
                        = avg.items[i].items[j].v.d
                          * IntSum([s \in 1..NSites |->
                              args.input[s].rec["beta_vector_local"]
                                  .items[i].items[j].v.n], NSites)

C6_Witness ==
    /\ called = "remote_1"
    /\ Returned
    /\ NSites = 2
    /\ args.input[1].rec["beta_vector_local"]
         # args.input[2].rec["beta_vector_local"]
    /\ args.input[1].rec["count_local"] # args.input[2].rec["count_local"]

\* C7: a Phase-1 response is {output, cache}, tagged remote_1, its output
\* repeating the cache's coefficients and mean; a Phase-2 response is
\* {output, success: true} and a finished run's response has no cache.
C7_ResponseForms ==
    /\ (called = "remote_1" /\ Returned) =>
          /\ DOMAIN stdout = {"output", "cache"}
          /\ stdout.output.computation_phase = "remote_1"
          /\ stdout.output.avg_beta_vector = stdout.cache.avg_beta_vector
          /\ stdout.output.mean_y_global = stdout.cache.mean_y_global
    /\ (called = "remote_2" /\ Returned) =>
          /\ DOMAIN stdout = {"output", "success"}
          /\ stdout.success = TRUE
    /\ pc = "Done" => ~Has(stdout, "cache")

C7_Witness == pc = "Done" /\ called = "remote_2" /\ Returned

\* C8: a Phase-2 call whose global SST is zero in some output dimension
\* does not return a success response.
C8_ZeroSSTFatal ==
    (called = "remote_2" /\ args.cache # EmptyDict
        /\ \E k \in 1..Len(args.cache.y_labels) : SiteSum("SST_local", k) = 0)
        => ~Returned

\* The global cross-product matrix, summed from the payload.
GlobalVarX(i, j) ==
    IntSum([s \in 1..NSites |->
              args.input[s].rec["varX_matrix_local"].items[i].items[j].v.n],
           NSites)

\* Some nonzero combination of the columns of the global matrix vanishes.
Singular ==
    LET p == Len(args.cache.X_labels)
    IN  \E v \in [1..p -> -1..1] :
            /\ \E j \in 1..p : v[j] # 0
            /\ \A i \in 1..p :
                   IntSum([j \in 1..p |-> GlobalVarX(i, j) * v[j]], p) = 0

\* C9: a Phase-2 call with a singular global cross-product matrix raises,
\* writes no response and hands no t-statistic or p-value to the sink.
C9_SingularFatal ==
    (called = "remote_2" /\ args.cache # EmptyDict /\ Singular)
        => raised # "" /\ stdout = NoOutput /\ sink = NoOutput

C9_Witness ==
    /\ called = "remote_2"
    /\ NSites = 2
    /\ Len(args.cache.X_labels) = 2
    /\ \A i \in 1..2 : GlobalVarX(i, 2) = 0
    /\ raised = "LinAlgError"

\* C10: a returning Phase-2 call takes the coefficients and the degrees of
\* freedom of its t-statistics and p-values from the cache of Phase-1,
\* which it passes on unchanged.
C10_UsesCache ==
    (called = "remote_2" /\ Returned) =>
        LET beta == carried.avg_beta_vector
            dof == carried.dof_global
            inv == linalg_inv(SumOverSites(args.input, "varX_matrix_local"))
            pv == sink.print_pvals
        IN  /\ args.cache = carried
            /\ sink.print_beta_images.avg_beta_vector = beta
            /\ dof.k = "list"
            /\ Len(dof.items) = Len(carried.y_labels)
            /\ Len(pv.ts_global) = Len(carried.y_labels)
            /\ \A i \in 1..Len(pv.ts_global) :
                 /\ Len(pv.ts_global[i].items) = Len(carried.X_labels)
                 /\ \A j \in 1..Len(pv.ts_global[i].items) :
                      LET t == pv.ts_global[i].items[j].v
                      IN  /\ t.num = beta.items[i].items[j].v
                          /\ FMul(t.den_sqrt, dof.items[i].v)
                               = FMul(Num(SiteSum("SSE_local", i)),
                                      inv.data[<<j, j>>])
                          /\ pv.ps_global[i].items[j].v.dof = dof.items[i]
                          /\ pv.ps_global[i].items[j].v.t_to_p
                               = pv.ts_global[i].items[j]

C10_Witness ==
    /\ pc = "Done"
    /\ called = "remote_2"
    /\ Returned
    /\ NSites = 2
    /\ Len(carried.y_labels) = 2

====
